---------------------------- MODULE Spec2Model ----------------------------
(***************************************************************************)
(* Cluster-scoped RBAC handling of the stork resource collector            *)
(* (pkg/resourcecollector/clusterrole.go): the subject classifier, the     *)
(* subject extractor used at collection time, the subject remapper used at *)
(* apply time and the read / create-or-update merge against the            *)
(* destination cluster.                                                    *)
(*                                                                         *)
(* Strings are sequences of text chunks.  A chunk stands for the run of    *)
(* characters its TLA+ string spells.  The separators the code looks for   *)
(* (":" and the two service-account prefixes) are spelled by chunks of     *)
(* their own and occur inside no other chunk at a place where a test of    *)
(* the code could see them, so prefix tests, splitting and concatenation   *)
(* on chunk sequences agree with the same operations on the character      *)
(* strings.  The chunk SA ("system:serviceaccount") is the part the        *)
(* user-name prefix and the group-name prefix have in common: the first    *)
(* continues with ":" and the second with "s:".                            *)
(***************************************************************************)
EXTENDS Naturals, Sequences, FiniteSets, TLC

VARIABLES
    sin,        \* subjectInNamespace: one call, its arguments and its result
    coll,       \* prepareClusterRoleBindingForCollection: one call
    app,        \* prepareClusterRoleBindingForApply: the object, the mapping, two runs
    cluster,    \* destination cluster: binding name -> binding or Absent
    merge,      \* mergeAndUpdateClusterRoleBinding: per caller, the call in progress
    last        \* the latest finished merge call (observation only)

vars == <<sin, coll, app, cluster, merge, last>>

-----------------------------------------------------------------------------
(* Bounds of the model *)

\* longest subject list of an incoming binding given to the merge
MaxSubjects == 2
\* longest subject list of a binding given to the extractor and the remapper
MaxPrepSubjects == 2
\* longest requested namespace list given to the extractor
MaxNamespaces == 2

-----------------------------------------------------------------------------
(* Strings *)

SA == "system:serviceaccount"

\* k8s.io/apiserver/pkg/authentication/serviceaccount constants
ServiceAccountUsernamePrefix == <<SA, ":">>
ServiceAccountUsernameSeparator == ":"
ServiceAccountGroupPrefix == <<SA, "s", ":">>

\* chunks made only of lower-case letters, digits and inner '-': a non-empty
\* sequence of them is an RFC 1123 label
LabelChunks == {"ns-a", "ns-b", "ns-c", "sa1", "sa2", "s"}

HasPrefix(s, prefix) ==
    /\ Len(s) >= Len(prefix)
    /\ SubSeq(s, 1, Len(prefix)) = prefix

TrimPrefix(s, prefix) ==
    IF HasPrefix(s, prefix) THEN SubSeq(s, Len(prefix) + 1, Len(s)) ELSE s

\* strings.Split(s, sep) for a one-chunk separator: always at least one part
RECURSIVE Split(_, _)
Split(s, sep) ==
    IF \A i \in 1..Len(s) : s[i] # sep
    THEN <<s>>
    ELSE LET i == CHOOSE k \in 1..Len(s) :
                      s[k] = sep /\ \A j \in 1..(k - 1) : s[j] # sep
         IN  <<SubSeq(s, 1, i - 1)>> \o Split(SubSeq(s, i + 1, Len(s)), sep)

\* ValidateNamespaceName / ValidateServiceAccountName accept the string
IsDNSName(s) == Len(s) > 0 /\ \A i \in 1..Len(s) : s[i] \in LabelChunks

\* serviceaccount.MakeUsername
MakeUsername(namespace, name) ==
    ServiceAccountUsernamePrefix \o namespace \o <<ServiceAccountUsernameSeparator>> \o name

\* serviceaccount.MakeNamespaceGroupName
MakeNamespaceGroupName(namespace) == ServiceAccountGroupPrefix \o namespace

\* serviceaccount.SplitUsername: [err, namespace, name]
SplitUsername(username) ==
    LET parts == Split(TrimPrefix(username, ServiceAccountUsernamePrefix),
                       ServiceAccountUsernameSeparator)
        bad   == [err |-> "invalidUsername", namespace |-> <<>>, name |-> <<>>]
    IN  IF ~HasPrefix(username, ServiceAccountUsernamePrefix) THEN bad
        ELSE IF Len(parts) # 2 THEN bad
        ELSE IF ~IsDNSName(parts[1]) \/ ~IsDNSName(parts[2]) THEN bad
        ELSE [err |-> "nil", namespace |-> parts[1], name |-> parts[2]]

-----------------------------------------------------------------------------
(* Subjects *)

ServiceAccountKind == "ServiceAccount"
UserKind == "User"
GroupKind == "Group"
Kinds == {ServiceAccountKind, UserKind, GroupKind, "Role"}

RbacGroup == "rbac.authorization.k8s.io"

Subject(kind, apiGroup, name, namespace) ==
    [kind |-> kind, apiGroup |-> apiGroup, name |-> name, namespace |-> namespace]

Namespaces == {<<"ns-a">>, <<"ns-b">>, <<"ns-c">>}

Text(s) == IF s = "" THEN <<>> ELSE <<s>>

\* rbacv1.Subject.String(), the generated formatter:
\* &Subject{Kind:<kind>,APIGroup:<apiGroup>,Name:<name>,Namespace:<namespace>,}
SubjectString(subject) ==
    <<"&Subject{", "Kind:">> \o Text(subject.kind) \o <<",", "APIGroup:">>
        \o Text(subject.apiGroup) \o <<",", "Name:">> \o subject.name
        \o <<",", "Namespace:">> \o subject.namespace \o <<",", "}">>

\* subjectInNamespace where a user name that does not split counts as a match
subjectInNamespaceLenient(subject, namespace) ==
    CASE subject.kind = ServiceAccountKind -> subject.namespace = namespace
      [] subject.kind = UserKind ->
            LET split == SplitUsername(subject.name)
            IN  split.err # "nil" \/ split.namespace = namespace
      [] subject.kind = GroupKind ->
            TrimPrefix(subject.name, ServiceAccountUsernamePrefix) = namespace
      [] OTHER -> FALSE

\* subjectInNamespace: the boolean it returns (its error is always nil)
subjectInNamespace(subject, namespace) ==
    CASE subject.kind = ServiceAccountKind -> subject.namespace = namespace
      [] subject.kind = UserKind ->
            LET split == SplitUsername(subject.name)
            IN  split.err = "nil" /\ split.namespace = namespace
      [] subject.kind = GroupKind ->
            TrimPrefix(subject.name, ServiceAccountUsernamePrefix) = namespace
      [] OTHER -> FALSE

-----------------------------------------------------------------------------
(* Bindings and the values the operations are called with *)

ClusterRoleBinding(name, roleRef, subjects) ==
    [name |-> name, roleRef |-> roleRef, subjects |-> subjects]

\* the set of elements of a sequence
Range(seq) == {seq[i] : i \in 1..Len(seq)}

\* all sequences over S of length at most n
SeqsUpTo(S, n) == UNION {[1..k -> S] : k \in 0..n}

\* names a subject of a binding can carry
Names ==
    { MakeUsername(<<"ns-a">>, <<"sa1">>),
      MakeUsername(<<"ns-b">>, <<"sa2">>),
      MakeUsername(<<"ns-a">>, <<"sa1">>) \o <<":", "sa2">>,
      MakeUsername(<<>>, <<"sa1">>),
      MakeUsername(<<"ns-a">>, <<"Sa_1">>),
      ServiceAccountUsernamePrefix \o <<"ns-a">>,
      MakeNamespaceGroupName(<<"ns-a">>),
      MakeNamespaceGroupName(<<"ns-b">>),
      <<"ns-a">>,
      <<"sa1">>,
      <<"system:masters">> }

ApiGroupOf(kind) == IF kind = ServiceAccountKind THEN "" ELSE RbacGroup

\* subjects the classifier is called with
Subjects ==
    { Subject(k, ApiGroupOf(k), n, ns) :
        k \in Kinds, n \in Names, ns \in {<<>>, <<"ns-a">>, <<"ns-b">>} }

\* subjects of the bindings given to the extractor and the remapper
PrepSubjects ==
    { Subject(ServiceAccountKind, "", <<"sa1">>, <<"ns-a">>),
      Subject(ServiceAccountKind, "", <<"sa1">>, <<"ns-b">>),
      Subject(UserKind, RbacGroup, MakeUsername(<<"ns-a">>, <<"sa1">>), <<>>),
      Subject(UserKind, RbacGroup, ServiceAccountUsernamePrefix \o <<"ns-a">>, <<>>),
      Subject(GroupKind, RbacGroup, MakeNamespaceGroupName(<<"ns-a">>), <<>>),
      Subject(GroupKind, RbacGroup, ServiceAccountUsernamePrefix \o <<"ns-a">>, <<>>),
      Subject(GroupKind, RbacGroup, <<"ns-b">>, <<>>),
      Subject("Role", RbacGroup, <<"sa1">>, <<"ns-a">>) }

BindingNames == {"crb-1"}
RoleRefs == {"role-a", "role-b"}

\* the runtime.Unstructured argument: its content, and whether FromUnstructured
\* can decode it into a ClusterRoleBinding
Object(crb, decodes) == [crb |-> crb, decodes |-> decodes]

PrepObjects ==
    { Object(ClusterRoleBinding(n, r, s), d) :
        n \in BindingNames, r \in {"role-a"},
        s \in SeqsUpTo(PrepSubjects, MaxPrepSubjects), d \in BOOLEAN }

Idle == [pc |-> "idle"]
Absent == [name |-> "", roleRef |-> "", subjects |-> <<>>]

-----------------------------------------------------------------------------
(* subjectInNamespace *)

SubjectInNamespace ==
    /\ sin.pc = "call"
    /\ sin' = [sin EXCEPT !.pc = "return",
                          !.collect = subjectInNamespace(sin.subject, sin.namespace)]
    /\ UNCHANGED <<coll, app, cluster, merge, last>>

InitClassify ==
    /\ sin \in [pc : {"call"}, subject : Subjects, namespace : Namespaces,
                collect : {FALSE}]
    /\ coll = Idle
    /\ app = Idle
    /\ cluster = [n \in BindingNames |-> Absent]
    /\ merge = <<>>
    /\ last = Idle

NextClassify == SubjectInNamespace

SpecClassify == InitClassify /\ [][NextClassify]_vars

-----------------------------------------------------------------------------
(* prepareClusterRoleBindingForCollection *)

\* the inner loop leaving at the first matching entry
collectSubjectOnce(subject, namespaces) ==
    IF \E j \in 1..Len(namespaces) : subjectInNamespace(subject, namespaces[j])
    THEN <<subject>>
    ELSE <<>>

\* the inner loop (lines 97-106): one copy of the subject per matching entry
RECURSIVE collectSubject(_, _)
collectSubject(subject, namespaces) ==
    IF namespaces = <<>> THEN <<>>
    ELSE (IF subjectInNamespace(subject, Head(namespaces)) THEN <<subject>> ELSE <<>>)
            \o collectSubject(subject, Tail(namespaces))

\* the outer loop (lines 94-107)
RECURSIVE subjectsToCollect(_, _)
subjectsToCollect(subjects, namespaces) ==
    IF subjects = <<>> THEN <<>>
    ELSE collectSubject(Head(subjects), namespaces)
            \o subjectsToCollect(Tail(subjects), namespaces)

PrepareClusterRoleBindingForCollection ==
    /\ coll.pc = "call"
    /\ IF ~coll.object.decodes
       THEN coll' = [coll EXCEPT !.pc = "return", !.err = "decode"]
       ELSE coll' = [coll EXCEPT
                        !.pc = "return",
                        !.err = "nil",
                        !.object.crb.subjects =
                            subjectsToCollect(coll.object.crb.subjects, coll.namespaces)]
    /\ UNCHANGED <<sin, app, cluster, merge, last>>

InitCollect ==
    /\ \E object \in PrepObjects, namespaces \in SeqsUpTo(Namespaces, MaxNamespaces) :
          coll = [pc |-> "call", object |-> object, arg |-> object,
                  namespaces |-> namespaces, err |-> "nil"]
    /\ sin = Idle
    /\ app = Idle
    /\ cluster = [n \in BindingNames |-> Absent]
    /\ merge = <<>>
    /\ last = Idle

NextCollect == PrepareClusterRoleBindingForCollection

SpecCollect == InitCollect /\ [][NextCollect]_vars

-----------------------------------------------------------------------------
(* prepareClusterRoleBindingForApply *)

\* the switch of lines 138-149 with the group name built from the user-name prefix
rewriteSubjectUserPrefix(subject, destNamespace) ==
    CASE subject.kind = UserKind ->
            LET split == SplitUsername(subject.name)
            IN  IF split.err # "nil"
                THEN [err |-> split.err, subject |-> subject]
                ELSE [err |-> "nil",
                      subject |-> [subject EXCEPT
                                      !.name = MakeUsername(destNamespace, split.name)]]
      [] subject.kind = GroupKind ->
            [err |-> "nil",
             subject |-> [subject EXCEPT
                             !.name = ServiceAccountUsernamePrefix \o destNamespace]]
      [] subject.kind = ServiceAccountKind ->
            [err |-> "nil", subject |-> [subject EXCEPT !.namespace = destNamespace]]
      [] OTHER -> [err |-> "nil", subject |-> subject]

\* the switch of lines 138-149 on the loop's copy of the subject: [err, subject]
rewriteSubject(subject, destNamespace) ==
    CASE subject.kind = UserKind ->
            LET split == SplitUsername(subject.name)
            IN  IF split.err # "nil"
                THEN [err |-> split.err, subject |-> subject]
                ELSE [err |-> "nil",
                      subject |-> [subject EXCEPT
                                      !.name = MakeUsername(destNamespace, split.name)]]
      [] subject.kind = GroupKind ->
            [err |-> "nil",
             subject |-> [subject EXCEPT !.name = MakeNamespaceGroupName(destNamespace)]]
      [] subject.kind = ServiceAccountKind ->
            [err |-> "nil", subject |-> [subject EXCEPT !.namespace = destNamespace]]
      [] OTHER -> [err |-> "nil", subject |-> subject]

\* the inner loop (lines 129-151) for one mapping entry, appending to subjectsToApply
RECURSIVE applyEntry(_, _, _, _)
applyEntry(subjects, sourceNamespace, destNamespace, subjectsToApply) ==
    IF subjects = <<>> THEN [err |-> "nil", subjects |-> subjectsToApply]
    ELSE IF ~subjectInNamespace(Head(subjects), sourceNamespace)
    THEN applyEntry(Tail(subjects), sourceNamespace, destNamespace, subjectsToApply)
    ELSE LET r == rewriteSubject(Head(subjects), destNamespace)
         IN  IF r.err # "nil"
             THEN [err |-> r.err, subjects |-> subjectsToApply]
             ELSE applyEntry(Tail(subjects), sourceNamespace, destNamespace,
                             Append(subjectsToApply, r.subject))

\* the outer loop (lines 127-152) visiting the map's keys in the given order
RECURSIVE subjectsToApply(_, _, _, _)
subjectsToApply(order, namespaceMappings, subjects, acc) ==
    IF order = <<>> THEN [err |-> "nil", subjects |-> acc]
    ELSE LET r == applyEntry(subjects, Head(order), namespaceMappings[Head(order)], acc)
         IN  IF r.err # "nil" THEN r
             ELSE subjectsToApply(Tail(order), namespaceMappings, subjects, r.subjects)

\* the orders in which a range over a Go map can visit the keys
Orders(keys) ==
    {o \in [1..Cardinality(keys) -> keys] : \A i, j \in DOMAIN o : o[i] = o[j] => i = j}

NamespaceMappings == UNION {[keys -> Namespaces] : keys \in SUBSET Namespaces}

Runs == {1, 2}

PrepareClusterRoleBindingForApply(run) ==
    /\ app.pc[run] = "call"
    /\ IF ~app.arg.decodes
       THEN app' = [app EXCEPT !.pc[run] = "return", !.err[run] = "decode"]
       ELSE \E order \in Orders(DOMAIN app.namespaceMappings) :
              LET r == subjectsToApply(order, app.namespaceMappings,
                                       app.arg.crb.subjects, <<>>)
              IN  IF r.err # "nil"
                  THEN app' = [app EXCEPT !.pc[run] = "return", !.err[run] = r.err]
                  ELSE app' = [app EXCEPT
                                  !.pc[run] = "return",
                                  !.err[run] = "nil",
                                  !.object[run].crb.subjects = r.subjects]
    /\ UNCHANGED <<sin, coll, cluster, merge, last>>

InitApply ==
    /\ \E object \in PrepObjects, namespaceMappings \in NamespaceMappings :
          app = [pc |-> [run \in Runs |-> "call"],
                 arg |-> object,
                 namespaceMappings |-> namespaceMappings,
                 object |-> [run \in Runs |-> object],
                 err |-> [run \in Runs |-> "nil"]]
    /\ sin = Idle
    /\ coll = Idle
    /\ cluster = [n \in BindingNames |-> Absent]
    /\ merge = <<>>
    /\ last = Idle

NextApply == \E run \in Runs : PrepareClusterRoleBindingForApply(run)

SpecApply == InitApply /\ [][NextApply]_vars

-----------------------------------------------------------------------------
(* mergeAndUpdateClusterRoleBinding *)

\* subjects of the bindings the merge meets.  The two User subjects differ in
\* name and namespace and have the same String():
\* &Subject{Kind:User,APIGroup:rbac.authorization.k8s.io,Name:a,Namespace:b,Namespace:,}
MergeSubjects ==
    { Subject(ServiceAccountKind, "", <<"sa1">>, <<"ns-a">>),
      Subject(GroupKind, RbacGroup, MakeNamespaceGroupName(<<"ns-b">>), <<>>),
      Subject(UserKind, RbacGroup, <<"a", ",", "Namespace:", "b">>, <<>>),
      Subject(UserKind, RbacGroup, <<"a">>, <<"b", ",", "Namespace:">>) }

MergeBindings ==
    { ClusterRoleBinding(n, r, s) :
        n \in BindingNames, r \in RoleRefs, s \in SeqsUpTo(MergeSubjects, MaxSubjects) }

\* the objects the merge is called with: every binding, and one that does not decode
MergeObjects ==
    { Object(b, TRUE) : b \in MergeBindings }
        \cup { Object(ClusterRoleBinding("crb-1", "role-a", <<>>), FALSE) }

\* errors of the cluster API other than not-found
ApiErrors == {"timeout", "forbidden"}

Callers == {1, 2}

NoCall ==
    [pc |-> "idle", object |-> Object(Absent, FALSE), currentCRB |-> Absent,
     getErr |-> "nil", calls |-> <<>>, err |-> "nil", before |-> Absent]

\* apierrors.IsNotFound
IsNotFound(err) == err = "notFound"

\* lines 172-177 with the not-found test left out: every failed read creates
afterGetAlwaysCreate(err) ==
    IF err = "nil" THEN "update" ELSE "create"

\* lines 172-177 with the create left out: every failed read returns
afterGetNeverCreate(err) ==
    IF err = "nil" THEN "update" ELSE "return"

\* lines 172-177: what follows the read, given its error
afterGet(err) ==
    IF err = "nil" THEN "update"
    ELSE IF IsNotFound(err) THEN "create"
    ELSE "return"

\* the binding whose subjects seed the map when the update is built, were the
\* binding read again at that moment
seedStored(currentCRB, stored) == stored

\* lines 171 and 181: the map is seeded from the binding the read returned
seedCRB(currentCRB, stored) == currentCRB

\* lines 180-186: the map from Subject.String() to subject, the destination's
\* subjects first and the incoming ones over them
updatedSubjects(current, new) ==
    LET all  == current \o new
        keys == {SubjectString(all[i]) : i \in 1..Len(all)}
        lastAt(k) == CHOOSE i \in 1..Len(all) :
                        /\ SubjectString(all[i]) = k
                        /\ \A j \in (i + 1)..Len(all) : SubjectString(all[j]) # k
    IN  [k \in keys |-> all[lastAt(k)]]

\* lines 187-190: the map's values in the order the range visits them
subjectLists(updated) ==
    {[i \in 1..Len(o) |-> updated[o[i]]] : o \in Orders(DOMAIN updated)}

\* lines 166-177 up to the read: decode the object and get the binding by name
GetClusterRoleBinding(c, objects) ==
    /\ merge[c].pc = "idle"
    /\ \E object \in objects :
        LET name == object.crb.name
            call == [NoCall EXCEPT !.object = object, !.before = cluster[name]]
        IN  IF ~object.decodes
            THEN merge' = [merge EXCEPT ![c] =
                              [call EXCEPT !.pc = "return", !.err = "decode"]]
            ELSE \E getErr \in ApiErrors \cup
                        (IF cluster[name] = Absent THEN {"notFound"} ELSE {"nil"}) :
                    merge' = [merge EXCEPT ![c] =
                        [call EXCEPT
                            !.pc = afterGet(getErr),
                            !.getErr = getErr,
                            !.err = getErr,
                            !.currentCRB = IF getErr = "nil" THEN cluster[name] ELSE Absent]]
    /\ UNCHANGED <<sin, coll, app, cluster, last>>

\* line 174 and the return of line 176
CreateClusterRoleBinding(c) ==
    /\ merge[c].pc = "create"
    /\ LET newCRB == merge[c].object.crb
       IN  \E createErr \in ApiErrors \cup
                    (IF cluster[newCRB.name] = Absent THEN {"nil"} ELSE {"alreadyExists"}) :
              /\ merge' = [merge EXCEPT
                              ![c].pc = "return",
                              ![c].err = createErr,
                              ![c].calls = Append(@, [op |-> "create", obj |-> newCRB,
                                                      err |-> createErr])]
              /\ cluster' = IF createErr = "nil"
                            THEN [cluster EXCEPT ![newCRB.name] = newCRB]
                            ELSE cluster
    /\ UNCHANGED <<sin, coll, app, last>>

\* lines 179-193
UpdateClusterRoleBinding(c) ==
    /\ merge[c].pc = "update"
    /\ LET newCRB == merge[c].object.crb
           seed   == seedCRB(merge[c].currentCRB, cluster[newCRB.name])
       IN  \E subjects \in subjectLists(updatedSubjects(seed.subjects, newCRB.subjects)),
              updateErr \in ApiErrors \cup {"nil"} :
              LET obj == [merge[c].currentCRB EXCEPT !.subjects = subjects]
              IN  /\ merge' = [merge EXCEPT
                                  ![c].pc = "return",
                                  ![c].err = updateErr,
                                  ![c].calls = Append(@, [op |-> "update", obj |-> obj,
                                                          err |-> updateErr])]
                  /\ cluster' = IF updateErr = "nil"
                                THEN [cluster EXCEPT ![obj.name] = obj]
                                ELSE cluster
    /\ UNCHANGED <<sin, coll, app, last>>

\* the call returns to its caller, which may call again; `remember` keeps the
\* finished call and the binding it left behind for the caller's next call
Return(c, remember) ==
    /\ merge[c].pc = "return"
    /\ last' = IF remember
               THEN [pc |-> "returned", object |-> merge[c].object, err |-> merge[c].err,
                     after |-> cluster[merge[c].object.crb.name]]
               ELSE last
    /\ merge' = [merge EXCEPT ![c] = NoCall]
    /\ UNCHANGED <<sin, coll, app, cluster>>

\* what the destination cluster can hold before the first merge
InitialBindings == MergeBindings \cup {Absent}

Init ==
    /\ cluster \in [BindingNames -> InitialBindings]
    /\ \A n \in BindingNames : cluster[n] # Absent => cluster[n].name = n
    /\ merge = [c \in Callers |-> NoCall]
    /\ last = Idle
    /\ sin = Idle
    /\ coll = Idle
    /\ app = Idle

\* one caller: merges follow one another
Next ==
    \/ GetClusterRoleBinding(1, MergeObjects)
    \/ CreateClusterRoleBinding(1)
    \/ UpdateClusterRoleBinding(1)
    \/ Return(1, FALSE)

Spec == Init /\ [][Next]_vars

\* one caller that applies the same object again and again
NextRepeat ==
    \/ GetClusterRoleBinding(1, IF last = Idle THEN MergeObjects ELSE {last.object})
    \/ CreateClusterRoleBinding(1)
    \/ UpdateClusterRoleBinding(1)
    \/ Return(1, TRUE)

SpecRepeat == Init /\ [][NextRepeat]_vars

\* the objects of two migrations that run at the same time: one subject each
RaceObjects ==
    { Object(ClusterRoleBinding(n, "role-a", <<s>>), TRUE) :
        n \in BindingNames, s \in MergeSubjects }

\* the destination before the two migrations: no binding, or one subject
InitRace ==
    /\ cluster \in [BindingNames ->
                      {Absent} \cup {ClusterRoleBinding("crb-1", "role-b", <<s>>) :
                                        s \in MergeSubjects}]
    /\ merge = [c \in Callers |-> NoCall]
    /\ last = Idle
    /\ sin = Idle
    /\ coll = Idle
    /\ app = Idle

\* two callers, one merge each, interleaving at the calls of the cluster API
NextRace ==
    \E c \in Callers :
        \/ GetClusterRoleBinding(c, RaceObjects)
        \/ CreateClusterRoleBinding(c)
        \/ UpdateClusterRoleBinding(c)

SpecRace == InitRace /\ [][NextRace]_vars

-----------------------------------------------------------------------------
(* Properties of the classifier, the extractor and the remapper *)

\* C3: for a Group subject and any namespace N, subjectInNamespace is true
\* exactly when the subject's name is MakeNamespaceGroupName(N).
C3_GroupMatchesItsConvention ==
    (sin.pc = "return" /\ sin.subject.kind = GroupKind)
        => (sin.collect <=> sin.subject.name = MakeNamespaceGroupName(sin.namespace))

\* number of entries of the requested list the classifier matches for a subject
MatchCount(subject, namespaces) ==
    Cardinality({j \in 1..Len(namespaces) : subjectInNamespace(subject, namespaces[j])})

\* number of output places taken by the subjects before place i of the input
RECURSIVE PlacesBefore(_, _, _)
PlacesBefore(subjects, namespaces, i) ==
    IF i = 1 THEN 0
    ELSE PlacesBefore(subjects, namespaces, i - 1)
            + MatchCount(subjects[i - 1], namespaces)

\* C6: the extractor leaves name and roleRef alone and replaces the subjects by
\* the sequence holding each original subject, unmodified and in the original
\* order, once per entry of the requested list that the classifier matches.
C6_CollectionKeepsMatchingSubjects ==
    (coll.pc = "return" /\ coll.arg.decodes) =>
        LET in  == coll.arg.crb.subjects
            out == coll.object.crb.subjects
            ns  == coll.namespaces
        IN  /\ coll.err = "nil"
            /\ coll.object.crb.name = coll.arg.crb.name
            /\ coll.object.crb.roleRef = coll.arg.crb.roleRef
            /\ Len(out) = PlacesBefore(in, ns, Len(in) + 1)
            /\ \A i \in 1..Len(in) :
                 \A k \in 1..MatchCount(in[i], ns) :
                    out[PlacesBefore(in, ns, i) + k] = in[i]

\* a call that kept one subject twice and dropped the other
C6_Witness ==
    /\ coll.pc = "return"
    /\ coll.arg.decodes
    /\ Len(coll.arg.crb.subjects) = 2
    /\ coll.arg.crb.subjects[1] # coll.arg.crb.subjects[2]
    /\ coll.object.crb.subjects = <<coll.arg.crb.subjects[2], coll.arg.crb.subjects[2]>>

AccountNames == {<<"sa1">>, <<"sa2">>}

\* t is subject s of sourceNamespace rewritten for destNamespace
IsRewritten(s, sourceNamespace, destNamespace, t) ==
    /\ t.kind = s.kind
    /\ t.apiGroup = s.apiGroup
    /\ CASE s.kind = ServiceAccountKind ->
                t.name = s.name /\ t.namespace = destNamespace
         [] s.kind = UserKind ->
                /\ t.namespace = s.namespace
                /\ \E account \in AccountNames :
                      /\ s.name = <<SA, ":">> \o sourceNamespace \o <<":">> \o account
                      /\ t.name = <<SA, ":">> \o destNamespace \o <<":">> \o account
         [] s.kind = GroupKind ->
                t.namespace = s.namespace /\ t.name = <<SA, "s", ":">> \o destNamespace
         [] OTHER -> FALSE

\* the (mapping entry, input place) pairs the classifier matches
MatchedPairs(subjects, namespaceMappings) ==
    {p \in (DOMAIN namespaceMappings) \X (1..Len(subjects)) :
        subjectInNamespace(subjects[p[2]], p[1])}

\* C4: the subjects written by the remapper are, as a multiset, one rewritten
\* subject per (mapping entry, subject) pair the classifier matches and nothing
\* else; unmatched subjects are dropped and a rewritten subject is not
\* rewritten again by another entry.
C4_ApplyRewritesEachMatchOnce ==
    \A run \in Runs :
        (app.pc[run] = "return" /\ app.arg.decodes) =>
            LET in    == app.arg.crb.subjects
                out   == app.object[run].crb.subjects
                m     == app.namespaceMappings
                pairs == MatchedPairs(in, m)
            IN  /\ app.err[run] = "nil"
                /\ Len(out) = Cardinality(pairs)
                /\ \A p \in pairs :
                      \E k \in 1..Len(out) : IsRewritten(in[p[2]], p[1], m[p[1]], out[k])
                /\ \A k \in 1..Len(out) :
                      Cardinality({j \in 1..Len(out) : out[j] = out[k]})
                        = Cardinality({p \in pairs :
                                          IsRewritten(in[p[2]], p[1], m[p[1]], out[k])})

\* ns-a -> ns-b and ns-b -> ns-c applied to a service account and a user of ns-a
\* and a group of ns-a: each is rewritten for ns-b and stays there
C4_Witness ==
    /\ app.pc[1] = "return"
    /\ app.arg.decodes
    /\ DOMAIN app.namespaceMappings = {<<"ns-a">>, <<"ns-b">>}
    /\ app.namespaceMappings[<<"ns-a">>] = <<"ns-b">>
    /\ app.namespaceMappings[<<"ns-b">>] = <<"ns-c">>
    /\ app.arg.crb.subjects =
          << Subject(UserKind, RbacGroup, MakeUsername(<<"ns-a">>, <<"sa1">>), <<>>),
             Subject(GroupKind, RbacGroup, ServiceAccountUsernamePrefix \o <<"ns-a">>, <<>>) >>
    /\ app.object[1].crb.subjects =
          << Subject(UserKind, RbacGroup, MakeUsername(<<"ns-b">>, <<"sa1">>), <<>>),
             Subject(GroupKind, RbacGroup, MakeNamespaceGroupName(<<"ns-b">>), <<>>) >>

\* a User subject whose name SplitUsername rejects
IsMalformedUser(subject) ==
    subject.kind = UserKind /\ SplitUsername(subject.name).err # "nil"

\* C5 as stated: a binding holding a User subject whose name does not conform
\* makes the remapper fail with an error.
C5_MalformedUserFails ==
    \A run \in Runs :
        ( /\ app.pc[run] = "return"
          /\ app.arg.decodes
          /\ DOMAIN app.namespaceMappings # {}
          /\ \E i \in 1..Len(app.arg.crb.subjects) :
                IsMalformedUser(app.arg.crb.subjects[i]) )
        => app.err[run] # "nil"

\* C5 as amended: the remapper returns no error: a User subject whose name does
\* not conform matches no mapping entry, so it is skipped and the output holds
\* one subject per matched pair of the other subjects, none of them a malformed
\* User.
C5_MalformedUserIsSkipped ==
    \A run \in Runs :
        (app.pc[run] = "return" /\ app.arg.decodes) =>
            LET in  == app.arg.crb.subjects
                out == app.object[run].crb.subjects
                m   == app.namespaceMappings
            IN  /\ app.err[run] = "nil"
                /\ Len(out) = Cardinality({p \in MatchedPairs(in, m) :
                                              ~IsMalformedUser(in[p[2]])})
                /\ \A k \in 1..Len(out) : ~IsMalformedUser(out[k])

\* a run over a binding with a malformed User and a service account of ns-a,
\* with ns-a mapped: the run succeeds and writes the service account alone
C5_Witness ==
    /\ app.pc[1] = "return"
    /\ app.arg.decodes
    /\ app.err[1] = "nil"
    /\ <<"ns-a">> \in DOMAIN app.namespaceMappings
    /\ Len(app.arg.crb.subjects) = 2
    /\ IsMalformedUser(app.arg.crb.subjects[1])
    /\ app.arg.crb.subjects[2].kind = ServiceAccountKind
    /\ Len(app.object[1].crb.subjects) = 1
    /\ app.object[1].crb.subjects[1].kind = ServiceAccountKind

\* C9: two runs of the remapper on the same binding and the same mapping write
\* the same subject sequence.
C9_SameOutputSequence ==
    (app.pc[1] = "return" /\ app.pc[2] = "return")
        => app.object[1].crb.subjects = app.object[2].crb.subjects

-----------------------------------------------------------------------------
(* Properties of the merge *)

\* the call of caller c has returned after a successful read and update
Updated(c) ==
    /\ merge[c].pc = "return"
    /\ merge[c].getErr = "nil"
    /\ merge[c].err = "nil"

\* no two places of the sequence hold subjects with the same String()
DistinctIdentities(subjects) ==
    \A i, j \in 1..Len(subjects) :
        SubjectString(subjects[i]) = SubjectString(subjects[j]) => i = j

\* C1 as stated: after a successful merge into a binding that was present, the
\* destination's subject set is the union of its previous subjects and the
\* incoming ones, no canonical identity twice; so no previous subject is lost.
C1_MergeIsUnion ==
    Updated(1) =>
        LET previous == merge[1].currentCRB.subjects
            incoming == merge[1].object.crb.subjects
            now      == cluster[merge[1].object.crb.name].subjects
        IN  /\ Range(now) = Range(previous) \cup Range(incoming)
            /\ DistinctIdentities(now)

\* different subjects of the sequence have different String() values
Injective(subjects) ==
    \A i, j \in 1..Len(subjects) :
        SubjectString(subjects[i]) = SubjectString(subjects[j])
            => subjects[i] = subjects[j]

\* what the merge does keep: when String() tells the subjects involved apart,
\* the result is the union, each subject once
MergeIsUnionOfDistinguishedSubjects ==
    (Updated(1) /\ Injective(merge[1].currentCRB.subjects \o merge[1].object.crb.subjects))
        => LET now == cluster[merge[1].object.crb.name].subjects
           IN  /\ Range(now) = Range(merge[1].currentCRB.subjects)
                                  \cup Range(merge[1].object.crb.subjects)
               /\ \A i, j \in 1..Len(now) : now[i] = now[j] => i = j

\* C2 as stated: a second successful merge of the same incoming binding leaves
\* the destination's subject set as the first one left it.
C2_MergeIsIdempotent ==
    ( /\ merge[1].pc = "return"
      /\ merge[1].err = "nil"
      /\ last.pc = "returned"
      /\ last.err = "nil"
      /\ last.object = merge[1].object )
    => Range(cluster[merge[1].object.crb.name].subjects) = Range(last.after.subjects)

\* what repetition does keep: idempotence for incoming bindings whose subjects
\* String() tells apart
MergeIsIdempotentOnDistinguishedSubjects ==
    ( /\ merge[1].pc = "return"
      /\ merge[1].err = "nil"
      /\ last.pc = "returned"
      /\ last.err = "nil"
      /\ last.object = merge[1].object
      /\ Injective(merge[1].object.crb.subjects) )
    => Range(cluster[merge[1].object.crb.name].subjects) = Range(last.after.subjects)

\* C7: when the read reports not-found, the call issues exactly one create
\* carrying the incoming binding unmodified, and no update.
C7_NotFoundCreatesAsIs ==
    \A c \in Callers :
        (merge[c].pc = "return" /\ IsNotFound(merge[c].getErr)) =>
            /\ Len(merge[c].calls) = 1
            /\ merge[c].calls[1].op = "create"
            /\ merge[c].calls[1].obj = merge[c].object.crb

\* a call that found nothing and created a binding of two subjects
C7_Witness ==
    /\ merge[1].pc = "return"
    /\ IsNotFound(merge[1].getErr)
    /\ merge[1].err = "nil"
    /\ merge[1].before = Absent
    /\ Len(merge[1].object.crb.subjects) = 2
    /\ cluster[merge[1].object.crb.name] = merge[1].object.crb

\* C8: a read that fails with another error than not-found makes the call
\* return that error, issue no create and no update and leave the destination
\* as it was; every call issues at most one write and returns the error of
\* that write.
C8_ErrorsPropagateOneAttempt ==
    \A c \in Callers :
        /\ Len(merge[c].calls) <= 1
        /\ merge[c].pc = "return" =>
              /\ merge[c].getErr \in ApiErrors =>
                    /\ merge[c].err = merge[c].getErr
                    /\ merge[c].calls = <<>>
                    /\ cluster[merge[c].object.crb.name] = merge[c].before
              /\ Len(merge[c].calls) = 1 => merge[c].err = merge[c].calls[1].err

\* a read of a binding that is present fails: nothing is written
C8_Witness ==
    /\ merge[1].pc = "return"
    /\ merge[1].getErr = "forbidden"
    /\ merge[1].err = "forbidden"
    /\ merge[1].calls = <<>>
    /\ merge[1].before # Absent
    /\ cluster[merge[1].object.crb.name] = merge[1].before

\* both callers read the same binding of the same name and updated with success
BothUpdated(c, d) ==
    /\ c # d
    /\ Updated(c)
    /\ Updated(d)
    /\ merge[c].object.crb.name = merge[d].object.crb.name
    /\ merge[c].currentCRB = merge[d].currentCRB

=============================================================================
